---------------------------- MODULE Spec2Model ----------------------------
(***************************************************************************)
(* Model of the web-entity prober of agent-microservices                   *)
(* (src/store_pg.js, lines 58-314): normalizeUrl, isPrivateIp, resolveDns, *)
(* fetchWithLimits, extractSignalsFromHtml, computeConfidence and          *)
(* checkWebEntityStatus.                                                   *)
(*                                                                         *)
(* One probe is a chain of await segments.  Every action below is one such *)
(* segment: the code that runs, without yielding, from the completion of   *)
(* one awaited operation to the start of the next.  The DNS servers, the   *)
(* remote HTTP servers and the clock are the environment; what they answer *)
(* is drawn from small sets.                                               *)
(***************************************************************************)
EXTENDS Integers, Sequences, FiniteSets, TLC

(***************************************************************************)
(* Program constants                                                       *)
(***************************************************************************)
TIMEOUT_MS == 4500

MAX_REDIRECTS == 5

MAX_BYTES == 200000

PARKING_PATTERNS ==
  {"domain for sale", "buy this domain", "this domain is for sale",
   "sedo", "afternic", "parked", "parking"}

CONTACT_HINTS ==
  {"contact", "contacto", "kontakt", "contatti", "contato", "nous contacter"}

LEGAL_HINTS ==
  {"privacy", "terms", "legal", "impressum", "aviso legal",
   "politica de privacidad", "terminos", "condiciones"}
\* ("terminos" stands for the accented hint of the source)

(***************************************************************************)
(* Bounds of the model                                                     *)
(***************************************************************************)
\* the clock advances in steps of TickMs and stops at MaxNow
TickMs == 2250

MaxNow == 6750

Null == "null"

Max(a, b) == IF a >= b THEN a ELSE b

Min(a, b) == IF a <= b THEN a ELSE b

(***************************************************************************)
(* Hosts and addresses.  A host string is a DNS name, a dotted IPv4        *)
(* literal (of which only the first two octets a.b matter to the code), an *)
(* IPv6 literal given by its characters, or text that is no host at all.   *)
(* br tells whether an IPv6 literal is written in square brackets, the     *)
(* form URL.hostname returns.                                              *)
(***************************************************************************)
Name(n) == [kind |-> "name", name |-> n, a |-> 0, b |-> 0, hex |-> <<>>, br |-> FALSE]

V4(a, b) == [kind |-> "v4", name |-> "", a |-> a, b |-> b, hex |-> <<>>, br |-> FALSE]

V6(hex) == [kind |-> "v6", name |-> "", a |-> 0, b |-> 0, hex |-> hex, br |-> FALSE]

Bracketed(h) == [h EXCEPT !.br = TRUE]

BadHost == [kind |-> "bad", name |-> "exa mple", a |-> 0, b |-> 0, hex |-> <<>>, br |-> FALSE]

\* String.prototype.toLowerCase on the characters an IPv6 literal is made of
LowerChar(c) ==
  CASE c = "A" -> "a" [] c = "B" -> "b" [] c = "C" -> "c"
    [] c = "D" -> "d" [] c = "E" -> "e" [] c = "F" -> "f"
    [] OTHER -> c

LowerChars(s) == [i \in 1..Len(s) |-> LowerChar(s[i])]

\* String.prototype.startsWith
StartsWith(s, p) ==
  /\ Len(s) >= Len(p)
  /\ \A i \in 1..Len(p) : s[i] = p[i]

\* net.isIP / net.isIPv4: a bracketed literal is not an IP address to net
NetIsIPv4(h) == h.kind = "v4"

NetIsIP(h) == h.kind = "v4" \/ (h.kind = "v6" /\ ~h.br)

\* isPrivateIp with the upper end of 172.16.0.0/12 off by one
isPrivateIpOffByOne(ip) ==
  IF ~NetIsIP(ip) THEN FALSE
  ELSE IF NetIsIPv4(ip) THEN
    \/ ip.a \in {10, 127, 0}
    \/ ip.a = 169 /\ ip.b = 254
    \/ ip.a = 172 /\ ip.b >= 16 /\ ip.b < 31
    \/ ip.a = 192 /\ ip.b = 168
  ELSE LET lower == LowerChars(ip.hex) IN
    \/ ip.hex = <<":", ":", "1">>
    \/ StartsWith(lower, <<"f", "c">>) \/ StartsWith(lower, <<"f", "d">>)
    \/ \E c \in {"8", "9", "a", "b"} : StartsWith(lower, <<"f", "e", c>>)

isPrivateIp(ip) ==
  IF ~NetIsIP(ip) THEN FALSE
  ELSE IF NetIsIPv4(ip) THEN
    IF ip.a = 10 THEN TRUE
    ELSE IF ip.a = 127 THEN TRUE
    ELSE IF ip.a = 169 /\ ip.b = 254 THEN TRUE
    ELSE IF ip.a = 172 /\ ip.b >= 16 /\ ip.b <= 31 THEN TRUE
    ELSE IF ip.a = 192 /\ ip.b = 168 THEN TRUE
    ELSE IF ip.a = 0 THEN TRUE
    ELSE FALSE
  ELSE IF ip.hex = <<":", ":", "1">> THEN TRUE
  ELSE LET lower == LowerChars(ip.hex) IN
    IF StartsWith(lower, <<"f", "c">>) \/ StartsWith(lower, <<"f", "d">>) THEN TRUE
    ELSE IF \/ StartsWith(lower, <<"f", "e", "8">>)
            \/ StartsWith(lower, <<"f", "e", "9">>)
            \/ StartsWith(lower, <<"f", "e", "a">>)
            \/ StartsWith(lower, <<"f", "e", "b">>) THEN TRUE
    ELSE FALSE

(***************************************************************************)
(* normalizeUrl.  The raw input is described by its parts: blank (nothing  *)
(* left after trim), the scheme written before "://" ("" when the input    *)
(* has none), whether user:password@ is present, and the host text.        *)
(***************************************************************************)
RawUrl(blank, scheme, cred, host) ==
  [blank |-> blank, scheme |-> scheme, cred |-> cred, host |-> host]

LowerScheme(s) ==
  CASE s = "HTTP" -> "http" [] s = "HTTPS" -> "https" [] s = "FTP" -> "ftp"
    [] OTHER -> s

\* /^https?:\/\//i.test(s)
HasHttpPrefix(inp) == LowerScheme(inp.scheme) \in {"http", "https"}

\* schemes written without "//" after the colon ("javascript:alert(1)")
OpaqueSchemes == {"javascript"}

\* the text handed to new URL(): "https://" is put in front of every input
\* the regular expression does not match.  In front of "ftp://host" that
\* makes "https://ftp://host", whose authority is "ftp:" (host ftp, empty
\* port) and whose path is "//host"; in front of "javascript:alert(1)" it
\* makes "https://javascript:alert(1)", whose port is no number.
Prefixed(inp) ==
  IF HasHttpPrefix(inp) THEN inp
  ELSE IF inp.scheme = "" THEN [inp EXCEPT !.scheme = "https"]
  ELSE IF inp.scheme \in OpaqueSchemes
    THEN [inp EXCEPT !.scheme = "https", !.cred = FALSE, !.host = BadHost]
  ELSE [inp EXCEPT !.scheme = "https", !.cred = FALSE, !.host = Name(LowerScheme(inp.scheme))]

\* new URL(s): fails on a host that is no host; lower-cases scheme and host
\* and writes an IPv6 host in brackets
ParseOk(p) == p.host.kind # "bad"

ParsedUrl(p) ==
  [protocol |-> IF LowerScheme(p.scheme) = "http" THEN "http:" ELSE
                IF LowerScheme(p.scheme) = "https" THEN "https:" ELSE "other:",
   cred |-> p.cred,
   hostname |-> IF p.host.kind = "v6"
                  THEN Bracketed([p.host EXCEPT !.hex = LowerChars(p.host.hex)])
                  ELSE p.host]

IsLocalhostName(h) ==
  h.kind = "name" /\ h.name \in {"localhost", "a.localhost"}

NoUrl == [protocol |-> Null, cred |-> FALSE, hostname |-> Name("")]

Thrown(msg) == [ok |-> FALSE, err |-> msg, u |-> NoUrl]

normalizeUrl(inp) ==
  IF inp.blank THEN Thrown("url is required")
  ELSE LET s == Prefixed(inp) IN
    IF ~ParseOk(s) THEN Thrown("Invalid URL")
    ELSE LET u == ParsedUrl(s) IN
      IF u.protocol \notin {"http:", "https:"} THEN Thrown("Only http/https allowed")
      ELSE IF u.cred THEN Thrown("Credentials in URL not allowed")
      ELSE IF IsLocalhostName(u.hostname) THEN Thrown("Localhost not allowed")
      ELSE IF NetIsIP(u.hostname) /\ isPrivateIp(u.hostname)
        THEN Thrown("Private IP not allowed")
      ELSE [ok |-> TRUE, err |-> Null, u |-> u]

\* every message normalizeUrl can throw
NormalizeErrors ==
  {"url is required", "Invalid URL", "Only http/https allowed",
   "Credentials in URL not allowed", "Localhost not allowed",
   "Private IP not allowed"}

(***************************************************************************)
(* extractSignalsFromHtml.  A body text is a sequence of tokens: tags,     *)
(* line breaks and words.  A hint or pattern occurs in the text when it    *)
(* occurs in one of its tokens.                                            *)
(***************************************************************************)
\* String.prototype.toLowerCase on the tokens of the model
LowerTok(t) ==
  CASE t = "<TITLE>" -> "<title>"
    [] t = "</TITLE>" -> "</title>"
    [] t = "Contact" -> "contact"
    [] t = "Privacy" -> "privacy"
    [] t = "PARKED" -> "parked"
    [] OTHER -> t

LowerText(html) == [i \in 1..Len(html) |-> LowerTok(html[i])]

\* the proper substrings among the words of the model
SubstringPairs ==
  {<<"contacto", "contact">>, <<"legally", "legal">>, <<"sedona", "sedo">>}

\* String.prototype.includes
Includes(lower, p) ==
  \E i \in 1..Len(lower) : lower[i] = p \/ <<lower[i], p>> \in SubstringPairs

\* /<title[^>]*>.*?<\/title>/ : an opening tag, then a closing tag with no
\* line break between the two ("." does not match a line break)
TitleRegexTest(lower) ==
  \E i \in 1..Len(lower) : \E j \in (i+1)..Len(lower) :
    /\ lower[i] = "<title>"
    /\ lower[j] = "</title>"
    /\ \A k \in (i+1)..(j-1) : lower[k] # "\n"

extractSignalsFromHtml(html) ==
  LET lower == LowerText(html) IN
  [has_title |-> TitleRegexTest(lower),
   has_contact_like_links |-> \E h \in CONTACT_HINTS : Includes(lower, h),
   has_legal_like_links |-> \E h \in LEGAL_HINTS : Includes(lower, h),
   parking_hit |-> \E p \in PARKING_PATTERNS : Includes(lower, p)]

(***************************************************************************)
(* computeConfidence, in hundredths: 0.35 is 35, the result 1 is 100.      *)
(***************************************************************************)
\* clamp01 without the lower bound
clamp01NoFloor(x) == Min(100, x)

clamp01(x) == Max(0, Min(100, x))

computeConfidence(args) ==
  LET s1 == IF args.reachable THEN 35 ELSE 0
      s2 == IF args.httpStatus >= 200 /\ args.httpStatus <= 399 THEN s1 + 15 ELSE s1
      s3 == IF args.sslValid THEN s2 + 10 ELSE s2
      s4 == IF args.contentTypeHtml THEN s3 + 10 ELSE s3
      s5 == IF args.contentLengthOk THEN s4 + 10 ELSE s4
      s6 == IF args.hasTitle THEN s5 + 10 ELSE s5
      s7 == IF args.hasContactOrLegal THEN s6 + 10 ELSE s6
      s8 == IF args.suspectedParked THEN s7 - 25 ELSE s7
  IN clamp01(s8)

(***************************************************************************)
(* What the environment may answer                                         *)
(***************************************************************************)
Pub4 == V4(93, 184)

Pub6 == V6(<<"2", "6", "0", "6", ":", ":", "1">>)

Private4 ==
  {V4(10, 0), V4(127, 0), V4(169, 254), V4(172, 16), V4(172, 31),
   V4(192, 168), V4(0, 0)}

Private6 ==
  {V6(<<":", ":", "1">>),
   V6(<<"f", "c", "0", "0", ":", ":", "1">>),
   V6(<<"f", "d", "f", "f", ":", ":", "1">>),
   V6(<<"f", "e", "8", "0", ":", ":", "1">>),
   V6(<<"f", "e", "b", "f", ":", ":", "1">>)}

\* what dns.resolve4 / dns.resolve6 may settle with: a list of addresses, or
\* a rejection carrying an error code. The absence of records is itself a
\* rejection (ENODATA, ENOTFOUND); every other code is a failed lookup.
Rejected(code) == [ok |-> FALSE, addrs |-> <<>>, code |-> code]

Resolved(addrs) == [ok |-> TRUE, addrs |-> addrs, code |-> ""]

NoRecordCodes == {"ENODATA", "ENOTFOUND"}

IsLookupFailure(ans) == ~ans.ok /\ ans.code \notin NoRecordCodes

Resolve4Answers ==
  {Rejected("ENODATA"), Rejected("ESERVFAIL"), Resolved(<<Pub4>>)}
    \cup {Resolved(<<p>>) : p \in Private4}
    \cup {Resolved(<<Pub4, p>>) : p \in Private4}

Resolve6Answers ==
  {Rejected("ENODATA"), Rejected("ESERVFAIL"), Resolved(<<Pub6>>)}
    \cup {Resolved(<<p>>) : p \in Private6}
    \cup {Resolved(<<Pub6, p>>) : p \in Private6}

\* the answers a lookup of host may settle with: the bracketed text of an
\* IPv6 literal is no DNS name and has no records
LookupAnswers(host, answers) ==
  IF host.br THEN {Rejected("ENOTFOUND")} ELSE answers

\* the raw inputs of a probe
RawInputs ==
  {RawUrl(TRUE, "", FALSE, Name("")),
   RawUrl(FALSE, "", FALSE, Name("pub.example")),
   RawUrl(FALSE, "http", FALSE, Name("pub.example")),
   RawUrl(FALSE, "https", TRUE, Name("pub.example")),
   RawUrl(FALSE, "https", FALSE, BadHost),
   RawUrl(FALSE, "http", FALSE, Name("localhost")),
   RawUrl(FALSE, "", FALSE, Name("a.localhost")),
   RawUrl(FALSE, "http", FALSE, V4(127, 0)),
   RawUrl(FALSE, "http", FALSE, V4(10, 0)),
   RawUrl(FALSE, "http", FALSE, V6(<<":", ":", "1">>))}

\* a URL as fetchWithLimits holds it (the text of URL.toString())
Url(protocol, hostname) == [protocol |-> protocol, hostname |-> hostname]

UrlToString(u) == Url(u.protocol, u.hostname)

\* the Location header of a response: absent, empty, an absolute URL, a
\* path relative to the current URL, or text new URL() rejects
NoLoc == [kind |-> "none", target |-> Url(Null, Name(""))]

EmptyLoc == [kind |-> "empty", target |-> Url(Null, Name(""))]

RelLoc == [kind |-> "rel", target |-> Url(Null, Name(""))]

BadLoc == [kind |-> "bad", target |-> Url(Null, Name(""))]

AbsLoc(u) == [kind |-> "abs", target |-> u]

Locations ==
  {NoLoc, EmptyLoc, RelLoc, BadLoc,
   AbsLoc(Url("http:", Name("other.example"))),
   AbsLoc(Url("http:", V4(127, 0)))}

Statuses == {200, 404, 304, 302}

\* the content-type header: absent (null), or its text
ContentTypes == {Null, "Text/HTML; charset=UTF-8"}

\* a chunk of a response body: its length in bytes and its text
Chunk(size, toks) == [size |-> size, toks |-> toks]

Bodies ==
  {<<>>,
   <<Chunk(3000, <<"<title>", "home", "</title>">>)>>,
   <<Chunk(6000, <<"<TITLE>", "\n", "</TITLE>">>)>>,
   <<Chunk(6000, <<"Contact">>), Chunk(3000, <<"legally">>)>>,
   <<Chunk(3000, <<"<title>">>), Chunk(6000, <<"</title>", "this domain is for sale">>)>>,
   <<Chunk(100000, <<"home">>), Chunk(100000, <<"Privacy">>)>>,
   <<Chunk(100000, <<"home">>), Chunk(100000, <<"Privacy">>),
     Chunk(3000, <<"<title>", "home", "</title>">>)>>,
   <<Chunk(150000, <<"home">>), Chunk(100000, <<"PARKED">>)>>}

(***************************************************************************)
(* The state of one probe                                                  *)
(***************************************************************************)
VARIABLES
  pc,            \* where checkWebEntityStatus is waiting, or how it ended
  u,             \* the URL normalizeUrl returned
  ips,           \* the list resolveDns builds
  url,           \* fetchWithLimits: the URL of the current hop
  redirectsLeft, \* fetchWithLimits: its second parameter
  now,           \* Date.now()
  start,         \* fetchWithLimits: start of the current hop
  firstStart,    \* start of the top-level fetchWithLimits call
  timerArmed,    \* the setTimeout of the current hop is pending
  res,           \* fetchWithLimits: the last response received
  loc,           \* fetchWithLimits: loc, the Location of a redirect response
  bytes,         \* fetchWithLimits: bytes
  text,          \* fetchWithLimits: text
  r,             \* what fetchWithLimits returned
  args,          \* the argument of computeConfidence
  confidence,    \* checkWebEntityStatus: confidence, in hundredths
  result,        \* what checkWebEntityStatus returned
  err,           \* the message of the error checkWebEntityStatus threw
  getCount,      \* number of GET requests issued
  inputUrl,      \* checkWebEntityStatus / normalizeUrl: inputUrl
  dnsLookups,    \* number of DNS lookups issued
  dnsFailed,     \* number of lookups that failed for another reason than
                 \* the absence of records
  server,        \* which server runs: "json" (server.js on store.js),
                 \* "credits" (the server on store_pg.js), "none"
  apiKeys,       \* store.js: state.apiKeys
  usage,         \* store.js: state.usage
  freeByIp,      \* store.js: state.freeByIp
  apiKeyRate,    \* app.__rl / apiKeyRate: requests counted per key and bucket
  cache,         \* cache: url -> { data, expiresAt }
  api_keys,      \* store_pg.js: the table api_keys
  reqs,          \* the requests to POST /v1/web-entity-status
  granted,       \* per key: initial credits plus credits added
  topups,        \* number of calls of POST /v1/admin/topup
  ratePassed,    \* per key and bucket: requests that passed the rate limit
  freePasses     \* per IP: the times at which a request without a valid
                 \* key passed the free-quota gate

vars ==
  <<pc, u, ips, url, redirectsLeft, now, start, firstStart, timerArmed, res,
    loc, bytes, text, r, args, confidence, result, err, getCount, inputUrl,
    dnsLookups, dnsFailed, server, apiKeys, usage, freeByIp, apiKeyRate, cache,
    api_keys, reqs, granted, topups, ratePassed, freePasses>>

\* the state of the servers
srvVars ==
  <<server, apiKeys, usage, freeByIp, apiKeyRate, cache, api_keys, reqs,
    granted, topups, ratePassed, freePasses>>

\* the state of one probe, the clock apart
probeVars ==
  <<pc, u, ips, url, redirectsLeft, start, firstStart, timerArmed, res, loc,
    bytes, text, r, args, confidence, result, err, getCount, inputUrl,
    dnsLookups, dnsFailed>>

\* no input yet
NoInput == RawUrl(TRUE, "", FALSE, Name(""))

NoRes == [status |-> 0, contentType |-> "", body |-> <<>>]

NoR ==
  [status |-> 0, contentType |-> "", bodyText |-> <<>>, bytesDownloaded |-> 0,
   responseTimeMs |-> 0, finalUrl |-> Url(Null, Name(""))]

NoArgs ==
  [reachable |-> FALSE, httpStatus |-> 0, sslValid |-> FALSE,
   contentTypeHtml |-> FALSE, contentLengthOk |-> FALSE, hasTitle |-> FALSE,
   hasContactOrLegal |-> FALSE, suspectedParked |-> FALSE]

NoResult == [exists |-> Null]

\* the result returned when the host has no address (lines 258-269)
NotFoundResult ==
  [exists |-> FALSE, reachable |-> FALSE, http_status |-> Null,
   final_url |-> Null, response_time_ms |-> Null, ssl_valid |-> Null,
   suspected_parked_domain |-> Null, signals |-> <<>>, confidence_score |-> 0]

\* (res.headers.get("content-type") || "").toLowerCase()
LowerContentType(ct) ==
  CASE ct = Null -> ""
    [] ct = "Text/HTML; charset=UTF-8" -> "text/html; charset=utf-8"
    [] OTHER -> ct

\* r.contentType.includes("text/html")
IncludesTextHtml(ct) == ct \in {"text/html", "text/html; charset=utf-8"}

\* line 282 without the "!" in front of sig.has_title
SuspectedParkedNoNegation(sig, bytesDownloaded) ==
  sig.parking_hit \/ (sig.has_title /\ bytesDownloaded < 8000)

\* line 282 with "||" in the place of "&&"
SuspectedParkedEither(sig, bytesDownloaded) ==
  sig.parking_hit \/ (~sig.has_title \/ bytesDownloaded < 8000)

\* line 282 of checkWebEntityStatus
SuspectedParked(sig, bytesDownloaded) ==
  sig.parking_hit \/ (~sig.has_title /\ bytesDownloaded < 8000)

\* lines 278-294: the argument checkWebEntityStatus hands to computeConfidence
ConfidenceArgs(protocol, status, contentType, bytesDownloaded, sig) ==
  [reachable |-> TRUE,
   httpStatus |-> status,
   sslValid |-> (protocol = "https:"),
   contentTypeHtml |-> IncludesTextHtml(contentType),
   contentLengthOk |-> (bytesDownloaded >= 5000),
   hasTitle |-> sig.has_title,
   hasContactOrLegal |-> (sig.has_contact_like_links \/ sig.has_legal_like_links),
   suspectedParked |-> SuspectedParked(sig, bytesDownloaded)]

ArgsOf(uu, rr) ==
  ConfidenceArgs(uu.protocol, rr.status, rr.contentType, rr.bytesDownloaded,
                 extractSignalsFromHtml(rr.bodyText))

\* lines 296-313: the result of a fetched probe
FetchedResult(uu, rr, conf) ==
  LET sig == extractSignalsFromHtml(rr.bodyText)
      a == ArgsOf(uu, rr)
  IN [exists |-> TRUE, reachable |-> TRUE, http_status |-> rr.status,
      final_url |-> rr.finalUrl, response_time_ms |-> rr.responseTimeMs,
      ssl_valid |-> (uu.protocol = "https:"),
      suspected_parked_domain |-> a.suspectedParked,
      signals |-> [content_type_html |-> a.contentTypeHtml,
                   content_length_ok |-> a.contentLengthOk,
                   has_title |-> sig.has_title,
                   has_contact_like_links |-> sig.has_contact_like_links,
                   has_legal_like_links |-> sig.has_legal_like_links],
      confidence_score |-> conf]

(***************************************************************************)
(* The data of the two servers.  server.js keeps its keys, usage counters  *)
(* and free quota in store.js; the credits server keeps keys and credits   *)
(* in the table api_keys of store_pg.js.  Both keep the cache and the      *)
(* per-key rate counters in memory.                                        *)
(***************************************************************************)
CACHE_TTL_MS == 3600000

FREE_TTL_MS == 86400000

API_KEY_RPM == 120

API_KEY_DAILY_LIMIT == 1000

DEFAULT_INITIAL_CREDITS == 1000

COST_PER_CALL == 1

\* requests to POST /v1/web-entity-status in one run
MaxReqs == 2

\* calls of POST /v1/admin/topup in one run
MaxTopups == 1

Keys == {"k1"}

\* the x-api-key header: absent, or one of the keys
HeaderKeys == Keys \cup {""}

Ips == {"ip1"}

Urls == {"a", "b"}

\* the values Date.now() takes
TimePoints == {0, 60000, CACHE_TTL_MS, FREE_TTL_MS}

\* Math.floor(Date.now() / 60000)
Bucket(t) == t \div 60000

Buckets == {Bucket(t) : t \in TimePoints}

\* the UTC date of time t, as days since the epoch
todayKeyUTC(t) == t \div 86400000

NoUsage == [present |-> FALSE, calls_total |-> 0, day |-> 0, calls_today |-> 0]

\* getUsageForKey at date t: the usage record of apiKey, its calls_today
\* reset and stored when the date changed
getUsageForKey(us, apiKey, t) ==
  LET u0 == IF us[apiKey].present THEN us[apiKey]
            ELSE [present |-> TRUE, calls_total |-> 0, day |-> t, calls_today |-> 0]
  IN IF u0.day # t
       THEN LET u1 == [u0 EXCEPT !.day = t, !.calls_today = 0]
            IN [u |-> u1, usage |-> [us EXCEPT ![apiKey] = u1]]
       ELSE [u |-> u0, usage |-> us]

\* recordUsage at date t
recordUsage(us, apiKey, t) ==
  LET g == getUsageForKey(us, apiKey, t)
  IN [g.usage EXCEPT ![apiKey] =
        [g.u EXCEPT !.calls_total = @ + 1, !.calls_today = @ + 1]]

NoEntry == [present |-> FALSE, expiresAt |-> 0, setAt |-> 0]

\* cache.set(cacheKey, { data: result, expiresAt: Date.now() + CACHE_TTL_MS })
CacheSet(c, cacheKey, t) ==
  [c EXCEPT ![cacheKey] =
     [present |-> TRUE, expiresAt |-> t + CACHE_TTL_MS, setAt |-> t]]

\* the expiry of the entry not tested
CacheHitNoExpiry(c, cacheKey, t) == c[cacheKey].present

\* cached && cached.expiresAt > Date.now()
CacheHit(c, cacheKey, t) == c[cacheKey].present /\ c[cacheKey].expiresAt > t

\* "n > API_KEY_RPM" written "n > API_KEY_RPM + 1"
RateLimitedOffByOne(n) == n > API_KEY_RPM + 1

\* server.js line 149, credits server line 188: n > API_KEY_RPM
RateLimited(n) == n > API_KEY_RPM

\* the gate of the free quota left open
HasFreeAvailableAlways(freeUntil, t) == TRUE

\* server.js line 161: !freeUntil || freeUntil <= Date.now(), where a missing
\* entry (null) is written 0
HasFreeAvailable(freeUntil, t) == freeUntil = 0 \/ freeUntil <= t

NoRow == [present |-> FALSE, credits_remaining |-> 0]

\* a request that has not arrived
NoReq ==
  [pc |-> "idle", key |-> "", ip |-> "", url |-> "", valid |-> FALSE,
   code |-> 0, body |-> "", charged |-> 0, probed |-> 0]

\* the handler returns; of a request that was answered the key, the answer
\* and what it was charged are kept
Reply(req, code, body) ==
  [req EXCEPT !.pc = "done", !.code = code, !.body = body, !.ip = "",
              !.url = ""]

\* no server runs
NoServer ==
  /\ server = "none"
  /\ apiKeys = {}
  /\ usage = [k \in Keys |-> NoUsage]
  /\ freeByIp = [ip \in Ips |-> 0]
  /\ apiKeyRate = [k \in Keys |-> [b \in Buckets |-> 0]]
  /\ cache = [x \in Urls |-> NoEntry]
  /\ api_keys = [k \in Keys |-> NoRow]
  /\ reqs = [i \in 1..MaxReqs |-> NoReq]
  /\ granted = [k \in Keys |-> 0]
  /\ topups = 0
  /\ ratePassed = [k \in Keys |-> [b \in Buckets |-> 0]]
  /\ freePasses = [ip \in Ips |-> <<>>]

Init ==
  /\ pc = "start"
  /\ u = NoUrl
  /\ ips = <<>>
  /\ url = Url(Null, Name(""))
  /\ redirectsLeft = MAX_REDIRECTS
  /\ now = 0
  /\ start = 0
  /\ firstStart = 0
  /\ timerArmed = FALSE
  /\ res = NoRes
  /\ loc = NoLoc
  /\ bytes = 0
  /\ text = <<>>
  /\ r = NoR
  /\ args = NoArgs
  /\ confidence = 0
  /\ result = NoResult
  /\ err = Null
  /\ getCount = 0
  /\ inputUrl = NoInput
  /\ dnsLookups = 0
  /\ dnsFailed = 0
  /\ NoServer

\* line 257 written as "if (!ips)": an empty array is not falsy
NoAddressTruthy(list) == FALSE

\* line 257: ips.length === 0
NoAddress(list) == Len(list) = 0

\* checkWebEntityStatus throws
Throw(msg) ==
  /\ pc' = "failed"
  /\ err' = msg

\* fetchWithLimits(nextUrl, left) up to its await: lines 203-217
CallFetch(nextUrl, left) ==
  /\ pc' = "connecting"
  /\ url' = nextUrl
  /\ redirectsLeft' = left
  /\ timerArmed' = TRUE
  /\ start' = now
  /\ firstStart' = IF getCount = 0 THEN now ELSE firstStart
  /\ getCount' = getCount + 1

\* lines 254-255 with resolveDns called on whatever normalizeUrl produced,
\* its error ignored
StartLooksUpFirst(inp) ==
  /\ pc = "start"
  /\ inputUrl' = inp
  /\ u' = normalizeUrl(inp).u
  /\ pc' = "resolve4"
  /\ dnsLookups' = dnsLookups + 1
  /\ UNCHANGED <<ips, url, redirectsLeft, now, start, firstStart, timerArmed,
                 res, loc, bytes, text, r, args, confidence, result, err,
                 getCount, dnsFailed>>
  /\ UNCHANGED srvVars

\* lines 253-255: normalizeUrl, then resolveDns up to its first await
Start(inp) ==
  /\ pc = "start"
  /\ inputUrl' = inp
  /\ LET n == normalizeUrl(inp) IN
       IF n.ok
         THEN /\ u' = n.u
              /\ pc' = "resolve4"
              /\ err' = err
              /\ dnsLookups' = dnsLookups + 1
         ELSE /\ Throw(n.err)
              /\ UNCHANGED <<u, dnsLookups>>
  /\ dnsFailed' = dnsFailed
  /\ UNCHANGED <<ips, url, redirectsLeft, now, start, firstStart, timerArmed,
                 res, loc, bytes, text, r, args, confidence, result, getCount>>
  /\ UNCHANGED srvVars

\* lines 154-158: dns.resolve4 settles, dns.resolve6 is called
Resolve4Settles(ans) ==
  /\ pc = "resolve4"
  /\ ips' = IF ans.ok THEN ips \o ans.addrs ELSE ips
  /\ dnsFailed' = IF IsLookupFailure(ans) THEN dnsFailed + 1 ELSE dnsFailed
  /\ dnsLookups' = dnsLookups + 1
  /\ pc' = "resolve6"
  /\ inputUrl' = inputUrl
  /\ UNCHANGED <<u, url, redirectsLeft, now, start, firstStart, timerArmed,
                 res, loc, bytes, text, r, args, confidence, result, err, getCount>>
  /\ UNCHANGED srvVars

\* lines 158-160 and 257-276: dns.resolve6 settles, resolveDns returns, the
\* list is checked and the first hop is started
Resolve6Settles(ans) ==
  /\ pc = "resolve6"
  /\ ips' = IF ans.ok THEN ips \o ans.addrs ELSE ips
  /\ dnsFailed' = IF IsLookupFailure(ans) THEN dnsFailed + 1 ELSE dnsFailed
  /\ UNCHANGED <<inputUrl, dnsLookups>>
  /\ IF NoAddress(ips')
       THEN /\ pc' = "done"
            /\ result' = NotFoundResult
            /\ UNCHANGED <<url, redirectsLeft, start, firstStart, timerArmed,
                           err, getCount>>
       ELSE IF \E i \in 1..Len(ips') : isPrivateIp(ips'[i])
         THEN /\ Throw("Host resolves to private IP")
              /\ UNCHANGED <<url, redirectsLeft, start, firstStart,
                             timerArmed, result, getCount>>
         ELSE /\ CallFetch(UrlToString(u), MAX_REDIRECTS)
              /\ UNCHANGED <<result, err>>
  /\ UNCHANGED <<u, now, res, loc, bytes, text, r, args, confidence>>
  /\ UNCHANGED srvVars

\* lines 278-313: checkWebEntityStatus scores what fetchWithLimits returned
Assess(rr) ==
  /\ args' = ArgsOf(u, rr)
  /\ confidence' = computeConfidence(args')
  /\ result' = FetchedResult(u, rr, confidence')
  /\ pc' = "done"

\* line 222
IsRedirectStatus(status) == status \in {301, 302, 303, 307, 308}

\* lines 222-224 with "redirectsLeft >= 0"
FollowsRedirectOffByOne(status, location, left) ==
  /\ IsRedirectStatus(status)
  /\ location.kind \notin {"none", "empty"}
  /\ left >= 0

\* lines 222-224: the response is a redirect that is followed
FollowsRedirect(status, location, left) ==
  /\ IsRedirectStatus(status)
  /\ location.kind \notin {"none", "empty"}
  /\ left > 0

\* new URL(loc, url)
ResolveLocation(location, base) ==
  IF location.kind = "rel" THEN base ELSE location.target

\* lines 243-250 and 278-313: fetchWithLimits returns through every frame of
\* the recursion and checkWebEntityStatus builds its result
ReturnFetched(finalBytes) ==
  LET rr == [status |-> res.status,
             contentType |-> res.contentType,
             bodyText |-> text,
             bytesDownloaded |-> finalBytes,
             responseTimeMs |-> now - start,
             finalUrl |-> url]
  IN /\ r' = rr
     /\ Assess(rr)

\* lines 218-231: the response headers arrive and the timer is cleared; a
\* redirect is followed by a recursive call, any other response is read.
\* Of a response that is followed nothing but the status and the Location is
\* ever read.
ResponseArrives(status, location, ct, body) ==
  /\ pc = "connecting"
  /\ loc' = IF IsRedirectStatus(status) THEN location ELSE NoLoc
  /\ IF FollowsRedirect(status, location, redirectsLeft)
       THEN /\ res' = [status |-> status, contentType |-> "", body |-> <<>>]
            /\ IF location.kind = "bad"
                 THEN /\ Throw("Invalid URL")
                      /\ timerArmed' = FALSE
                      /\ UNCHANGED <<url, redirectsLeft, start, firstStart,
                                     getCount>>
                 ELSE /\ CallFetch(ResolveLocation(location, url), redirectsLeft - 1)
                      /\ UNCHANGED err
       ELSE /\ pc' = "body"
            /\ timerArmed' = FALSE
            /\ res' = [status |-> status,
                       contentType |-> LowerContentType(ct),
                       body |-> body]
            /\ UNCHANGED <<url, redirectsLeft, start, firstStart, getCount, err>>
  /\ UNCHANGED <<u, ips, now, bytes, text, r, args, confidence, result>>
  /\ UNCHANGED <<inputUrl, dnsLookups, dnsFailed>>
  /\ UNCHANGED srvVars

\* lines 208-220 with the rejected request issued once more
FetchRejectsRetries ==
  /\ pc = "connecting"
  /\ CallFetch(url, redirectsLeft)
  /\ UNCHANGED <<u, ips, now, res, loc, bytes, text, r, args, confidence,
                 result, err, inputUrl, dnsLookups, dnsFailed>>
  /\ UNCHANGED srvVars

\* lines 208-220: fetch rejects (connection refused, reset, ...)
FetchRejects ==
  /\ pc = "connecting"
  /\ timerArmed' = FALSE
  /\ Throw("FetchError")
  /\ UNCHANGED <<u, ips, url, redirectsLeft, now, start, firstStart, res, loc,
                 bytes, text, r, args, confidence, result, getCount>>
  /\ UNCHANGED <<inputUrl, dnsLookups, dnsFailed>>
  /\ UNCHANGED srvVars

\* line 204: the timer of the hop fires, the request is aborted and fetch
\* rejects with an AbortError
TimerFires ==
  /\ timerArmed
  /\ now - start >= TIMEOUT_MS
  /\ timerArmed' = FALSE
  /\ Throw("AbortError")
  /\ UNCHANGED <<u, ips, url, redirectsLeft, now, start, firstStart, res, loc,
                 bytes, text, r, args, confidence, result, getCount>>
  /\ UNCHANGED <<inputUrl, dnsLookups, dnsFailed>>
  /\ UNCHANGED srvVars

\* lines 235-240: one chunk of the body arrives
ChunkArrives ==
  /\ pc = "body"
  /\ res.body # <<>>
  /\ LET buf == Head(res.body) IN
       /\ bytes' = bytes + buf.size
       /\ IF bytes' > MAX_BYTES
            THEN /\ ReturnFetched(bytes')
                 /\ UNCHANGED <<text, res, loc>>
            ELSE /\ text' = text \o buf.toks
                 /\ res' = [res EXCEPT !.body = Tail(res.body)]
                 /\ UNCHANGED <<pc, loc, r, args, confidence, result>>
  /\ UNCHANGED <<u, ips, url, redirectsLeft, now, start, firstStart,
                 timerArmed, err, getCount>>
  /\ UNCHANGED <<inputUrl, dnsLookups, dnsFailed>>
  /\ UNCHANGED srvVars

\* lines 235-250: the body ends
BodyEnds ==
  /\ pc = "body"
  /\ res.body = <<>>
  /\ ReturnFetched(bytes)
  /\ UNCHANGED <<u, ips, url, redirectsLeft, now, start, firstStart,
                 timerArmed, res, loc, bytes, text, err, getCount>>
  /\ UNCHANGED <<inputUrl, dnsLookups, dnsFailed>>
  /\ UNCHANGED srvVars

\* line 235: the body stream fails
BodyFails ==
  /\ pc = "body"
  /\ Throw("FetchError")
  /\ UNCHANGED <<u, ips, url, redirectsLeft, now, start, firstStart,
                 timerArmed, res, loc, bytes, text, r, args, confidence, result, getCount>>
  /\ UNCHANGED <<inputUrl, dnsLookups, dnsFailed>>
  /\ UNCHANGED srvVars

\* time passes while a request is in flight; it does not pass the moment a
\* pending timer is due without the timer firing
Tick ==
  /\ pc \in {"connecting", "body"}
  /\ ~(timerArmed /\ now - start >= TIMEOUT_MS)
  /\ now + TickMs <= MaxNow
  /\ now' = IF timerArmed THEN Min(now + TickMs, start + TIMEOUT_MS)
                          ELSE now + TickMs
  /\ UNCHANGED <<pc, u, ips, url, redirectsLeft, start, firstStart,
                 timerArmed, res, loc, bytes, text, r, args, confidence, result, err, getCount>>
  /\ UNCHANGED <<inputUrl, dnsLookups, dnsFailed>>
  /\ UNCHANGED srvVars

Next ==
  \/ \E inp \in RawInputs : Start(inp)
  \/ \E ans \in LookupAnswers(u.hostname, Resolve4Answers) : Resolve4Settles(ans)
  \/ \E ans \in LookupAnswers(u.hostname, Resolve6Answers) : Resolve6Settles(ans)
  \/ \E status \in Statuses, location \in Locations, ct \in ContentTypes,
        body \in Bodies : ResponseArrives(status, location, ct, body)
  \/ FetchRejects
  \/ TimerFires
  \/ ChunkArrives
  \/ BodyEnds
  \/ BodyFails
  \/ Tick

Spec == Init /\ [][Next]_vars

(***************************************************************************)
(* The scorer on its own: computeConfidence applied to every combination   *)
(* of its eight inputs, and lines 278-313 of checkWebEntityStatus applied  *)
(* to every fetch outcome of a small set.                                  *)
(***************************************************************************)
ScoreStatuses == {199, 200, 399, 400}

ByteSamples == {0, 4999, 5000, 7999, 8000, MAX_BYTES}

TextSamples ==
  {<<>>,
   <<"<title>", "home", "</title>">>,
   <<"<TITLE>", "\n", "</TITLE>">>,
   <<"Contact">>,
   <<"<title>", "</title>", "legally">>,
   <<"PARKED">>,
   <<"<title>", "home", "</title>", "contacto", "this domain is for sale">>,
   <<"sedona", "Privacy">>}

ArgsSpace ==
  [reachable : BOOLEAN, httpStatus : ScoreStatuses, sslValid : BOOLEAN,
   contentTypeHtml : BOOLEAN, contentLengthOk : BOOLEAN, hasTitle : BOOLEAN,
   hasContactOrLegal : BOOLEAN, suspectedParked : BOOLEAN]

FetchOutcomes ==
  [status : ScoreStatuses,
   contentType : {LowerContentType(ct) : ct \in ContentTypes},
   bodyText : TextSamples,
   bytesDownloaded : ByteSamples,
   responseTimeMs : {0},
   finalUrl : {Url("http:", Name("pub.example"))}]

InitScore ==
  /\ ips = <<>>
  /\ url = Url(Null, Name(""))
  /\ redirectsLeft = MAX_REDIRECTS
  /\ now = 0
  /\ start = 0
  /\ firstStart = 0
  /\ timerArmed = FALSE
  /\ res = NoRes
  /\ loc = NoLoc
  /\ bytes = 0
  /\ text = <<>>
  /\ confidence = 0
  /\ result = NoResult
  /\ err = Null
  /\ getCount = 0
  /\ inputUrl = NoInput
  /\ dnsLookups = 0
  /\ dnsFailed = 0
  /\ NoServer
  /\ \/ /\ pc = "score"
        /\ args \in ArgsSpace
        /\ u = NoUrl
        /\ r = NoR
     \/ /\ pc = "fetched"
        /\ args = NoArgs
        /\ u \in {[protocol |-> p, cred |-> FALSE, hostname |-> Name("pub.example")] :
                    p \in {"http:", "https:"}}
        /\ r \in FetchOutcomes

\* lines 180-200: computeConfidence is called with args
Score ==
  /\ pc = "score"
  /\ confidence' = computeConfidence(args)
  /\ pc' = "scored"
  /\ UNCHANGED <<u, ips, url, redirectsLeft, now, start, firstStart,
                 timerArmed, res, loc, bytes, text, r, args, result, err, getCount>>
  /\ UNCHANGED <<inputUrl, dnsLookups, dnsFailed>>
  /\ UNCHANGED srvVars

\* lines 278-313: checkWebEntityStatus after fetchWithLimits returned r
AssessFetched ==
  /\ pc = "fetched"
  /\ Assess(r)
  /\ UNCHANGED <<u, ips, url, redirectsLeft, now, start, firstStart,
                 timerArmed, res, loc, bytes, text, r, err, getCount>>
  /\ UNCHANGED <<inputUrl, dnsLookups, dnsFailed>>
  /\ UNCHANGED srvVars

NextScore == Score \/ AssessFetched

SpecScore == InitScore /\ [][NextScore]_vars

(***************************************************************************)
(* normalizeUrl on its own, applied to inputs of every scheme and to every *)
(* literal IP host.                                                        *)
(***************************************************************************)
Octets == 0..255

Schemes == {"", "http", "https", "HTTP", "HTTPS", "ftp", "FTP", "file", "javascript"}

HostSamples == {Name("pub.example"), Name("localhost"), Name("a.localhost"), BadHost}

V6Samples ==
  Private6 \cup
    {Pub6,
     V6(<<"F", "C", "0", "0", ":", ":", "1">>),
     V6(<<"f", "b", "f", "f", ":", ":", "1">>),
     V6(<<"f", "e", "0", "0", ":", ":", "1">>),
     V6(<<"f", "e", "c", "0", ":", ":", "1">>)}

NormInputs ==
  RawInputs
    \cup {RawUrl(FALSE, s, c, h) : s \in Schemes, c \in BOOLEAN, h \in HostSamples}
    \cup {RawUrl(FALSE, "http", FALSE, V4(a, b)) : a \in Octets, b \in Octets}
    \cup {RawUrl(FALSE, s, FALSE, h) : s \in {"", "http"}, h \in V6Samples}

InitNorm ==
  /\ pc = "normalize"
  /\ inputUrl \in NormInputs
  /\ u = NoUrl
  /\ ips = <<>>
  /\ url = Url(Null, Name(""))
  /\ redirectsLeft = MAX_REDIRECTS
  /\ now = 0
  /\ start = 0
  /\ firstStart = 0
  /\ timerArmed = FALSE
  /\ res = NoRes
  /\ loc = NoLoc
  /\ bytes = 0
  /\ text = <<>>
  /\ r = NoR
  /\ args = NoArgs
  /\ confidence = 0
  /\ result = NoResult
  /\ err = Null
  /\ getCount = 0
  /\ dnsLookups = 0
  /\ dnsFailed = 0
  /\ NoServer

\* lines 117-150: normalizeUrl is called with inputUrl
Normalize ==
  /\ pc = "normalize"
  /\ LET n == normalizeUrl(inputUrl) IN
       /\ u' = n.u
       /\ err' = n.err
       /\ pc' = IF n.ok THEN "normalized" ELSE "failed"
  /\ UNCHANGED <<ips, url, redirectsLeft, now, start, firstStart, timerArmed,
                 res, loc, bytes, text, r, args, confidence, result, getCount,
                 inputUrl, dnsLookups, dnsFailed>>
  /\ UNCHANGED srvVars

NextNorm == Normalize

SpecNorm == InitNorm /\ [][NextNorm]_vars

(***************************************************************************)
(* The servers.  A request is handled in segments, each running from one   *)
(* await to the next without interruption; between segments the segments   *)
(* of other requests run and time passes.  The probe is seen from outside: *)
(* checkWebEntityStatus returns a result or throws.  Requests are numbered *)
(* in the order they arrive; the per-IP limiter registered in front of the *)
(* routes has let them through.                                            *)
(***************************************************************************)
\* the stores a run starts with: empty, or holding the key k1 with the
\* usage or the credits given, its rate counter of the current bucket at n
JsonStore(present, calls, n) ==
  /\ server = "json"
  /\ apiKeys = IF present THEN {"k1"} ELSE {}
  /\ usage = [k \in Keys |->
               IF present
                 THEN [present |-> TRUE, calls_total |-> calls, day |-> 0,
                       calls_today |-> calls]
                 ELSE NoUsage]
  /\ apiKeyRate = [k \in Keys |-> [b \in Buckets |-> IF b = 0 THEN n ELSE 0]]
  /\ api_keys = [k \in Keys |-> NoRow]
  /\ granted = [k \in Keys |-> 0]

CreditsStore(present, credits, n) ==
  /\ server = "credits"
  /\ apiKeys = {}
  /\ usage = [k \in Keys |-> NoUsage]
  /\ apiKeyRate = [k \in Keys |-> [b \in Buckets |-> IF b = 0 THEN n ELSE 0]]
  /\ api_keys = [k \in Keys |->
                  IF present
                    THEN [present |-> TRUE, credits_remaining |-> credits]
                    ELSE NoRow]
  /\ granted = [k \in Keys |-> credits]

InitServer ==
  /\ pc = "start"
  /\ u = NoUrl
  /\ ips = <<>>
  /\ url = Url(Null, Name(""))
  /\ redirectsLeft = MAX_REDIRECTS
  /\ now = 0
  /\ start = 0
  /\ firstStart = 0
  /\ timerArmed = FALSE
  /\ res = NoRes
  /\ loc = NoLoc
  /\ bytes = 0
  /\ text = <<>>
  /\ r = NoR
  /\ args = NoArgs
  /\ confidence = 0
  /\ result = NoResult
  /\ err = Null
  /\ getCount = 0
  /\ inputUrl = NoInput
  /\ dnsLookups = 0
  /\ dnsFailed = 0
  /\ freeByIp = [ip \in Ips |-> 0]
  /\ cache = [x \in Urls |-> NoEntry]
  /\ reqs = [i \in 1..MaxReqs |-> NoReq]
  /\ topups = 0
  /\ freePasses = [ip \in Ips |-> <<>>]
  /\ \/ JsonStore(FALSE, 0, 0)
     \/ JsonStore(TRUE, API_KEY_DAILY_LIMIT - 1, 0)
     \/ JsonStore(TRUE, 0, API_KEY_RPM - 1)
     \/ CreditsStore(FALSE, 0, 0)
     \/ CreditsStore(TRUE, DEFAULT_INITIAL_CREDITS, API_KEY_RPM - 1)
  /\ ratePassed = apiKeyRate

\* server.js lines 112-187: the handler from the arrival of the request to
\* its first await, or to its reply when it awaits nothing
JsonRequest(i, headerKey, ip, cacheKey) ==
  /\ server = "json"
  /\ reqs[i].pc = "idle"
  /\ \A j \in 1..(i - 1) : reqs[j].pc # "idle"
  /\ LET hasValidApiKey == headerKey # "" /\ headerKey \in apiKeys
         day == todayKeyUTC(now)
         g == getUsageForKey(usage, headerKey, day)
         dailyLimitReached ==
           hasValidApiKey /\ g.u.calls_today >= API_KEY_DAILY_LIMIT
         usage1 == IF hasValidApiKey THEN g.usage ELSE usage
         rateCounted == hasValidApiKey /\ ~dailyLimitReached
         bucket == Bucket(now)
         n == apiKeyRate[headerKey][bucket] + 1
         rateLimited == rateCounted /\ RateLimited(n)
         atGate == ~dailyLimitReached /\ ~rateLimited
         freeUntil == freeByIp[ip]
         hasFreeAvailable == HasFreeAvailable(freeUntil, now)
         paymentRequired == atGate /\ ~hasValidApiKey /\ ~hasFreeAvailable
         freeTaken == atGate /\ ~hasValidApiKey /\ hasFreeAvailable
         atCache == atGate /\ ~paymentRequired
         hit == atCache /\ CacheHit(cache, cacheKey, now)
         charge == hit /\ hasValidApiKey
         req == [NoReq EXCEPT !.key = headerKey, !.ip = ip, !.url = cacheKey,
                              !.valid = hasValidApiKey]
     IN /\ usage' = IF charge THEN recordUsage(usage1, headerKey, day) ELSE usage1
        /\ apiKeyRate' = IF rateCounted
                           THEN [apiKeyRate EXCEPT ![headerKey][bucket] = n]
                           ELSE apiKeyRate
        /\ ratePassed' = IF rateCounted /\ ~rateLimited
                           THEN [ratePassed EXCEPT ![headerKey][bucket] = @ + 1]
                           ELSE ratePassed
        /\ freeByIp' = IF freeTaken
                         THEN [freeByIp EXCEPT ![ip] = now + FREE_TTL_MS]
                         ELSE freeByIp
        /\ freePasses' = IF freeTaken
                           THEN [freePasses EXCEPT ![ip] = Append(@, now)]
                           ELSE freePasses
        /\ reqs' = [reqs EXCEPT ![i] =
             IF dailyLimitReached THEN Reply(req, 402, "DAILY_LIMIT_REACHED")
             ELSE IF rateLimited THEN Reply(req, 429, "RATE_LIMITED")
             ELSE IF paymentRequired THEN Reply(req, 402, "PAYMENT_REQUIRED")
             ELSE IF hit
               THEN Reply([req EXCEPT !.charged = IF charge THEN 1 ELSE 0],
                          200, "cached")
             ELSE [req EXCEPT !.pc = "probing", !.probed = 1]]
  /\ UNCHANGED <<server, apiKeys, cache, api_keys, granted, topups, now>>
  /\ UNCHANGED probeVars

\* server.js lines 187-195: checkWebEntityStatus returned a result
JsonProbeReturns(i) ==
  /\ server = "json"
  /\ reqs[i].pc = "probing"
  /\ cache' = CacheSet(cache, reqs[i].url, now)
  /\ usage' = IF reqs[i].valid
                THEN recordUsage(usage, reqs[i].key, todayKeyUTC(now))
                ELSE usage
  /\ reqs' = [reqs EXCEPT ![i] =
       Reply([@ EXCEPT !.charged = IF reqs[i].valid THEN @ + 1 ELSE @],
             200, "result")]
  /\ UNCHANGED <<server, apiKeys, freeByIp, apiKeyRate, api_keys, granted,
                 topups, ratePassed, freePasses, now>>
  /\ UNCHANGED probeVars

\* the catch block recording the call of a valid key before it answers
ProbeThrowsRecordsUsage(i) ==
  /\ server \in {"json", "credits"}
  /\ reqs[i].pc = "probing"
  /\ usage' = IF server = "json" /\ reqs[i].valid
                THEN recordUsage(usage, reqs[i].key, todayKeyUTC(now))
                ELSE usage
  /\ reqs' = [reqs EXCEPT ![i] = Reply(@, 400, "BAD_REQUEST")]
  /\ UNCHANGED <<server, apiKeys, freeByIp, apiKeyRate, cache, api_keys,
                 granted, topups, ratePassed, freePasses, now>>
  /\ UNCHANGED probeVars

\* lines 197-204 of server.js, 240-244 of the credits server:
\* checkWebEntityStatus threw
ProbeThrows(i) ==
  /\ server \in {"json", "credits"}
  /\ reqs[i].pc = "probing"
  /\ reqs' = [reqs EXCEPT ![i] = Reply(@, 400, "BAD_REQUEST")]
  /\ UNCHANGED <<server, apiKeys, usage, freeByIp, apiKeyRate, cache, api_keys,
                 granted, topups, ratePassed, freePasses, now>>
  /\ UNCHANGED probeVars

\* server.js lines 76-80 and addApiKey: POST /v1/api-keys
AddApiKey(key) ==
  /\ server = "json"
  /\ key \notin apiKeys
  /\ apiKeys' = apiKeys \cup {key}
  /\ usage' = IF usage[key].present THEN usage
              ELSE [usage EXCEPT ![key] =
                      [present |-> TRUE, calls_total |-> 0,
                       day |-> todayKeyUTC(now), calls_today |-> 0]]
  /\ UNCHANGED <<server, freeByIp, apiKeyRate, cache, api_keys, reqs, granted,
                 topups, ratePassed, freePasses, now>>
  /\ UNCHANGED probeVars

\* credits server lines 168-177: the handler up to "await getApiKey"
CreditsRequest(i, apiKey, cacheKey) ==
  /\ server = "credits"
  /\ reqs[i].pc = "idle"
  /\ \A j \in 1..(i - 1) : reqs[j].pc # "idle"
  /\ LET req == [NoReq EXCEPT !.key = apiKey, !.url = cacheKey]
     IN reqs' = [reqs EXCEPT ![i] =
          IF apiKey = "" THEN Reply(req, 401, "UNAUTHORIZED")
          ELSE [req EXCEPT !.pc = "getApiKey"]]
  /\ UNCHANGED <<server, apiKeys, usage, freeByIp, apiKeyRate, cache, api_keys,
                 granted, topups, ratePassed, freePasses, now>>
  /\ UNCHANGED probeVars

\* credits server lines 177-222: getApiKey returned; the rate limit, the
\* credit check on the row just read and the cache lookup, up to the await
\* of decrementCredit (a hit) or of checkWebEntityStatus (a miss)
GetApiKeyReturns(i) ==
  /\ server = "credits"
  /\ reqs[i].pc = "getApiKey"
  /\ LET apiKey == reqs[i].key
         keyRow == api_keys[apiKey]
         bucket == Bucket(now)
         n == apiKeyRate[apiKey][bucket] + 1
         rateLimited == keyRow.present /\ RateLimited(n)
         outOfCredits == keyRow.credits_remaining < COST_PER_CALL
         req == [reqs[i] EXCEPT !.valid = keyRow.present]
     IN /\ apiKeyRate' = IF keyRow.present
                           THEN [apiKeyRate EXCEPT ![apiKey][bucket] = n]
                           ELSE apiKeyRate
        /\ ratePassed' = IF keyRow.present /\ ~rateLimited
                           THEN [ratePassed EXCEPT ![apiKey][bucket] = @ + 1]
                           ELSE ratePassed
        /\ reqs' = [reqs EXCEPT ![i] =
             IF ~keyRow.present THEN Reply(req, 401, "UNAUTHORIZED")
             ELSE IF rateLimited THEN Reply(req, 429, "RATE_LIMITED")
             ELSE IF outOfCredits THEN Reply(req, 402, "OUT_OF_CREDITS")
             ELSE IF CacheHit(cache, req.url, now)
               THEN [req EXCEPT !.pc = "decrementCredit", !.body = "cached"]
             ELSE [req EXCEPT !.pc = "probing", !.probed = 1]]
  /\ UNCHANGED <<server, apiKeys, usage, freeByIp, cache, api_keys, granted,
                 topups, freePasses, now>>
  /\ UNCHANGED probeVars

\* credits server lines 222-228: checkWebEntityStatus returned a result, it
\* is cached and decrementCredit is called
CreditsProbeReturns(i) ==
  /\ server = "credits"
  /\ reqs[i].pc = "probing"
  /\ cache' = CacheSet(cache, reqs[i].url, now)
  /\ reqs' = [reqs EXCEPT ![i] =
       [@ EXCEPT !.pc = "decrementCredit", !.body = "result"]]
  /\ UNCHANGED <<server, apiKeys, usage, freeByIp, apiKeyRate, api_keys,
                 granted, topups, ratePassed, freePasses, now>>
  /\ UNCHANGED probeVars

\* decrementCredit reporting success without the UPDATE
decrementCreditNoUpdate(table, apiKey) == [ok |-> TRUE, table |-> table]

\* decrementCredit without "AND credits_remaining > 0"
decrementCreditUnguarded(table, apiKey) ==
  [ok |-> table[apiKey].present,
   table |-> [table EXCEPT ![apiKey].credits_remaining = @ - 1]]

\* store_pg.js lines 31-40: the UPDATE of decrementCredit, one row changed
\* when credits_remaining > 0 and none otherwise
decrementCredit(table, apiKey) ==
  IF table[apiKey].present /\ table[apiKey].credits_remaining > 0
    THEN [ok |-> TRUE,
          table |-> [table EXCEPT ![apiKey].credits_remaining = @ - 1]]
    ELSE [ok |-> FALSE, table |-> table]

\* credits server lines 208-218 and 228-238: decrementCredit returned
DecrementReturns(i) ==
  /\ server = "credits"
  /\ reqs[i].pc = "decrementCredit"
  /\ LET d == decrementCredit(api_keys, reqs[i].key)
     IN /\ api_keys' = d.table
        /\ reqs' = [reqs EXCEPT ![i] =
             IF d.ok THEN Reply([@ EXCEPT !.charged = @ + 1], 200, @.body)
             ELSE Reply(@, 402, "OUT_OF_CREDITS")]
  /\ UNCHANGED <<server, apiKeys, usage, freeByIp, apiKeyRate, cache, granted,
                 topups, ratePassed, freePasses, now>>
  /\ UNCHANGED probeVars

\* the credits a key is created with: body.credits (a key created with
\* the default is the one CreditsStore starts with)
InitialCredits == {0, 1}

\* credits server lines 68-91 and createApiKey: POST /v1/api-keys
CreateApiKey(key, credits) ==
  /\ server = "credits"
  /\ ~api_keys[key].present
  /\ api_keys' = [api_keys EXCEPT ![key] =
                    [present |-> TRUE, credits_remaining |-> credits]]
  /\ granted' = [granted EXCEPT ![key] = credits]
  /\ UNCHANGED <<server, apiKeys, usage, freeByIp, apiKeyRate, cache, reqs,
                 topups, ratePassed, freePasses, now>>
  /\ UNCHANGED probeVars

\* body.amount of POST /v1/admin/topup
TopupAmounts == {1}

\* credits server lines 121-151 and addCredits: POST /v1/admin/topup for a
\* key that exists; of its four queries only the UPDATE of addCredits
\* changes the table
Topup(key, amount) ==
  /\ server = "credits"
  /\ topups < MaxTopups
  /\ api_keys[key].present
  /\ api_keys' = [api_keys EXCEPT ![key].credits_remaining = @ + amount]
  /\ granted' = [granted EXCEPT ![key] = @ + amount]
  /\ topups' = topups + 1
  /\ UNCHANGED <<server, apiKeys, usage, freeByIp, apiKeyRate, cache, reqs,
                 ratePassed, freePasses, now>>
  /\ UNCHANGED probeVars

\* time passes
Advance(t) ==
  /\ server \in {"json", "credits"}
  /\ t > now
  /\ now' = t
  /\ UNCHANGED srvVars
  /\ UNCHANGED probeVars

NextServer ==
  \/ \E i \in 1..MaxReqs, headerKey \in HeaderKeys, ip \in Ips, cacheKey \in Urls :
       JsonRequest(i, headerKey, ip, cacheKey)
  \/ \E i \in 1..MaxReqs : JsonProbeReturns(i)
  \/ \E i \in 1..MaxReqs : ProbeThrows(i)
  \/ \E key \in Keys : AddApiKey(key)
  \/ \E i \in 1..MaxReqs, apiKey \in HeaderKeys, cacheKey \in Urls :
       CreditsRequest(i, apiKey, cacheKey)
  \/ \E i \in 1..MaxReqs : GetApiKeyReturns(i)
  \/ \E i \in 1..MaxReqs : CreditsProbeReturns(i)
  \/ \E i \in 1..MaxReqs : DecrementReturns(i)
  \/ \E key \in Keys, credits \in InitialCredits : CreateApiKey(key, credits)
  \/ \E key \in Keys, amount \in TopupAmounts : Topup(key, amount)
  \/ \E t \in TimePoints : Advance(t)

SpecServer == InitServer /\ [][NextServer]_vars

(***************************************************************************)
(* Properties                                                              *)
(***************************************************************************)
HexDigit(c) ==
  CASE c = "0" -> 0 [] c = "1" -> 1 [] c = "2" -> 2 [] c = "3" -> 3
    [] c = "4" -> 4 [] c = "5" -> 5 [] c = "6" -> 6 [] c = "7" -> 7
    [] c = "8" -> 8 [] c = "9" -> 9 [] c = "a" -> 10 [] c = "b" -> 11
    [] c = "c" -> 12 [] c = "d" -> 13 [] c = "e" -> 14 [] c = "f" -> 15

RECURSIVE HextetValue(_, _, _)
HextetValue(hex, i, acc) ==
  IF i > Len(hex) \/ hex[i] = ":" THEN acc
  ELSE HextetValue(hex, i + 1, acc * 16 + HexDigit(hex[i]))

\* the ranges of section 4.1, by number: 10/8, 127/8, 169.254/16, 172.16/12,
\* 192.168/16, 0/8, ::1, fc00::/7 and fe80::/10
InPrivateRange(ip) ==
  \/ /\ ip.kind = "v4"
     /\ \/ ip.a = 10
        \/ ip.a = 127
        \/ ip.a = 169 /\ ip.b = 254
        \/ ip.a = 172 /\ ip.b \div 16 = 1
        \/ ip.a = 192 /\ ip.b = 168
        \/ ip.a = 0
  \/ /\ ip.kind = "v6"
     /\ \/ ip.hex = <<":", ":", "1">>
        \/ HextetValue(ip.hex, 1, 0) \div 512 = 126
        \/ HextetValue(ip.hex, 1, 0) \div 64 = 1018

\* normalizeUrl returned a URL and both lookups have settled
DnsOver == u # NoUrl /\ pc \notin {"start", "resolve4", "resolve6"}

\* C1: once the host is resolved, a resolved list that holds an address of a
\* private range (alone or beside public ones) means the probe has failed
\* with "Host resolves to private IP", a message normalizeUrl never throws,
\* and no GET was issued.
C1_PrivateAddressBlocksProbe ==
  (DnsOver /\ \E i \in 1..Len(ips) : InPrivateRange(ips[i]))
    => /\ pc = "failed"
       /\ err = "Host resolves to private IP"
       /\ err \notin NormalizeErrors
       /\ getCount = 0

\* a probe blocked for a list that mixes a public and a private address
C1_Witness ==
  /\ pc = "failed"
  /\ err = "Host resolves to private IP"
  /\ \E i, j \in 1..Len(ips) : InPrivateRange(ips[i]) /\ ~InPrivateRange(ips[j])
  /\ getCount = 0

\* C2: no GET is ever issued to a URL whose host is localhost or a literal
\* address of a private range, whatever redirects the servers answer.
C2_NoGetToPrivateHost ==
  pc = "connecting"
    => ~(IsLocalhostName(url.hostname) \/ InPrivateRange(url.hostname))

\* C3: a host that resolves to no address gives a returned result with
\* exists = false, reachable = false, score 0 and every per-fetch field
\* null, and no GET was issued.
C3_NoAddressGivesNotFound ==
  (DnsOver /\ Len(ips) = 0)
    => /\ pc = "done"
       /\ result.exists = FALSE
       /\ result.reachable = FALSE
       /\ result.confidence_score = 0
       /\ result.http_status = Null
       /\ result.final_url = Null
       /\ result.response_time_ms = Null
       /\ result.ssl_valid = Null
       /\ result.suspected_parked_domain = Null
       /\ err = Null
       /\ getCount = 0

\* a probe that ended on an empty address list
C3_Witness ==
  /\ pc = "done"
  /\ Len(ips) = 0
  /\ result.exists = FALSE
  /\ getCount = 0

\* the probe returned the result of a fetch
Fetched == pc = "done" /\ result.exists = TRUE

\* C4: at most MAX_REDIRECTS redirects are followed; a hop after the first
\* was started by a response with a redirect status and a Location while
\* redirects were left; the status returned is that of the last response
\* received, redirect or not; and the only error redirect handling raises is
\* that of a Location new URL() rejects while redirects are left.
C4_RedirectsBounded ==
  /\ getCount <= MAX_REDIRECTS + 1
  /\ (pc = "connecting" /\ getCount > 1)
       => /\ res.status \in {301, 302, 303, 307, 308}
          /\ loc.kind \notin {"none", "empty"}
          /\ redirectsLeft = MAX_REDIRECTS + 1 - getCount
          /\ redirectsLeft >= 0
  /\ Fetched => (result.http_status = res.status /\ err = Null)
  /\ (pc \in {"body", "done"} /\ getCount > 0
        /\ res.status \in {301, 302, 303, 307, 308})
       => (redirectsLeft = 0 \/ loc.kind \in {"none", "empty"})
  /\ (pc = "failed" /\ getCount > 0 /\ err \notin {"FetchError", "AbortError"})
       => (err = "Invalid URL" /\ loc.kind = "bad" /\ redirectsLeft > 0)

\* the sixth response of a chain of six redirects is the result
C4_Witness ==
  /\ Fetched
  /\ getCount = MAX_REDIRECTS + 1
  /\ redirectsLeft = 0
  /\ loc.kind = "abs"
  /\ result.http_status \in {301, 302, 303, 307, 308}

\* C5: the byte count accumulated, and reported as bytesDownloaded, never
\* exceeds MAX_BYTES.
C5_BytesWithinCap ==
  /\ bytes <= MAX_BYTES
  /\ Fetched => r.bytesDownloaded <= MAX_BYTES

\* C6: no hop is in progress, waiting for the headers or reading the body,
\* after TIMEOUT_MS have passed since it started.
C6_HopWithinDeadline ==
  pc \in {"connecting", "body"} => now - start <= TIMEOUT_MS

\* C7: response_time_ms is the time from the start of the first hop to the
\* end of the body read of the last hop.
C7_ResponseTimeCoversAllHops ==
  Fetched => result.response_time_ms = now - firstStart

\* C10: in every fetched result suspected_parked_domain is true exactly when
\* the body has a parking pattern, or has no title and fewer than 8000 bytes
\* were downloaded.
C10_SuspectedParkedRule ==
  Fetched =>
    (result.suspected_parked_domain
       <=> \/ extractSignalsFromHtml(r.bodyText).parking_hit
           \/ (~result.signals.has_title /\ r.bytesDownloaded < 8000))

\* a page with a title and 9000 bytes is flagged for its parking phrase
C10_Witness ==
  /\ Fetched
  /\ getCount > 0
  /\ result.signals.has_title
  /\ r.bytesDownloaded >= 8000
  /\ extractSignalsFromHtml(r.bodyText).parking_hit
  /\ result.suspected_parked_domain = TRUE

Ind(b) == IF b THEN 1 ELSE 0

\* the table of section 4.5, in hundredths
WeightedSum(a) ==
  35 * Ind(a.reachable)
    + 15 * Ind(a.httpStatus \in 200..399)
    + 10 * Ind(a.sslValid)
    + 10 * Ind(a.contentTypeHtml)
    + 10 * Ind(a.contentLengthOk)
    + 10 * Ind(a.hasTitle)
    + 10 * Ind(a.hasContactOrLegal)
    - 25 * Ind(a.suspectedParked)

\* C8: for every combination of the eight inputs the score is the weighted
\* sum, raised to 0 when below and lowered to 1 (100 hundredths) when above,
\* hence within [0,1].
C8_ScoreIsClampedSum ==
  pc \in {"scored", "done"} =>
    LET sum == WeightedSum(args) IN
      /\ confidence = IF sum < 0 THEN 0 ELSE IF sum > 100 THEN 100 ELSE sum
      /\ confidence \in 0..100

\* an unreachable, parked outcome: the sum is negative and the score is 0
C8_Witness ==
  /\ pc = "scored"
  /\ ~args.reachable
  /\ args.suspectedParked
  /\ WeightedSum(args) = -25
  /\ confidence = 0

\* the score checkWebEntityStatus gives a fetch outcome
ProbeScore(protocol, status, contentType, bytesDownloaded, sig) ==
  computeConfidence(
    ConfidenceArgs(protocol, status, contentType, bytesDownloaded, sig))

InRange(status) == status >= 200 /\ status <= 399

\* C9, at the scorer: setting one positive input of computeConfidence from
\* false to true, the others fixed, never lowers the score.
MonotoneAtScorer(a) ==
  /\ \A f \in {"sslValid", "contentTypeHtml", "contentLengthOk", "hasTitle",
               "hasContactOrLegal"} :
       computeConfidence([a EXCEPT ![f] = TRUE])
         >= computeConfidence([a EXCEPT ![f] = FALSE])
  /\ \A s1, s2 \in ScoreStatuses :
       (~InRange(s1) /\ InRange(s2))
         => computeConfidence([a EXCEPT !.httpStatus = s2])
              >= computeConfidence([a EXCEPT !.httpStatus = s1])

\* C9, at checkWebEntityStatus: changing one positive signal of a fetch
\* outcome from false to true, the rest fixed, never lowers the score, although
\* the title and the byte count also decide suspected_parked_domain.
MonotoneAtProbe(protocol, status, contentType, bytesDownloaded, sig) ==
  /\ \A s1, s2 \in ScoreStatuses :
       (~InRange(s1) /\ InRange(s2))
         => ProbeScore(protocol, s2, contentType, bytesDownloaded, sig)
              >= ProbeScore(protocol, s1, contentType, bytesDownloaded, sig)
  /\ ProbeScore("https:", status, contentType, bytesDownloaded, sig)
       >= ProbeScore("http:", status, contentType, bytesDownloaded, sig)
  /\ ProbeScore(protocol, status, "text/html", bytesDownloaded, sig)
       >= ProbeScore(protocol, status, "", bytesDownloaded, sig)
  /\ \A b1, b2 \in ByteSamples :
       (b1 < 5000 /\ b2 >= 5000)
         => ProbeScore(protocol, status, contentType, b2, sig)
              >= ProbeScore(protocol, status, contentType, b1, sig)
  /\ ProbeScore(protocol, status, contentType, bytesDownloaded,
                [sig EXCEPT !.has_title = TRUE])
       >= ProbeScore(protocol, status, contentType, bytesDownloaded,
                     [sig EXCEPT !.has_title = FALSE])
  /\ \A c, l \in BOOLEAN :
       (c \/ l)
         => ProbeScore(protocol, status, contentType, bytesDownloaded,
                       [sig EXCEPT !.has_contact_like_links = c,
                                   !.has_legal_like_links = l])
              >= ProbeScore(protocol, status, contentType, bytesDownloaded,
                            [sig EXCEPT !.has_contact_like_links = FALSE,
                                        !.has_legal_like_links = FALSE])

\* C9: the confidence score does not decrease when one positive signal goes
\* from false to true, at computeConfidence and at checkWebEntityStatus.
C9_ScoreMonotone ==
  /\ MonotoneAtScorer(args)
  /\ MonotoneAtProbe(u.protocol, r.status, r.contentType, r.bytesDownloaded,
                     extractSignalsFromHtml(r.bodyText))

\* a scored page of fewer than 8000 bytes whose title keeps it from being
\* flagged: without the title the score is 35 hundredths lower
C9_Witness ==
  /\ Fetched
  /\ r.bytesDownloaded < 8000
  /\ result.signals.has_title
  /\ ~result.suspected_parked_domain
  /\ confidence = 35 + ProbeScore(u.protocol, r.status, r.contentType,
                                  r.bytesDownloaded,
                                  [extractSignalsFromHtml(r.bodyText)
                                     EXCEPT !.has_title = FALSE])

\* normalizeUrl has been applied to inputUrl
Normalized == pc \in {"normalized", "failed"} /\ ~inputUrl.blank

\* inputUrl is an http(s) URL without credentials whose host is a literal IP
LiteralIpInput ==
  /\ inputUrl.host.kind \in {"v4", "v6"}
  /\ LowerScheme(inputUrl.scheme) \in {"", "http", "https"}
  /\ ~inputUrl.cred

\* C11: normalizeUrl fails for a URL whose host is a literal IP address
\* exactly when the address lies in one of the private, loopback, link-local
\* or unspecified ranges, IPv4 or IPv6 (an IPv6 literal in URL form).
C11_LiteralIpDecision ==
  Normalized /\ LiteralIpInput =>
    ((pc = "failed") <=>
       InPrivateRange([inputUrl.host EXCEPT !.hex = LowerChars(@)]))

\* C12: an input without a scheme is accepted only as an https URL, and an
\* input whose scheme is neither http nor https is never accepted: it fails
\* with one of normalizeUrl's errors.
C12_OtherSchemesRejected ==
  Normalized =>
    /\ inputUrl.scheme = "" /\ pc = "normalized" => u.protocol = "https:"
    /\ LowerScheme(inputUrl.scheme) \notin {"", "http", "https"} =>
          pc = "failed" /\ err \in NormalizeErrors

C18_StageOrder ==
  /\ u = NoUrl => dnsLookups = 0 /\ getCount = 0
  /\ pc \in {"start", "resolve4"} => dnsLookups <= 1 /\ getCount = 0
  /\ pc = "resolve6" => getCount = 0
  /\ getCount > 0 =>
       /\ DnsOver
       /\ dnsLookups = 2
       /\ Len(ips) > 0
       /\ \A i \in 1..Len(ips) : ~InPrivateRange(ips[i])
  /\ args # NoArgs => pc = "done" /\ r # NoR /\ getCount > 0
  /\ pc = "done" => err = Null /\ DOMAIN result # DOMAIN NoResult
  /\ pc = "failed" => err # Null /\ result = NoResult /\ args = NoArgs
  /\ pc \notin {"done", "failed"} => err = Null /\ result = NoResult
  /\ pc \in {"done", "failed"} => ~timerArmed

\* a probe that went through every stage: validated, resolved with one
\* lookup failing, fetched over a redirect, scored and returned
C18_Witness ==
  /\ Fetched
  /\ dnsLookups = 2
  /\ dnsFailed = 1
  /\ getCount = 2
  /\ args # NoArgs
  /\ result.confidence_score = confidence

\* C19: a probe issues at most MAX_REDIRECTS + 1 GET requests, one per hop
\* (the n-th request is the one that leaves MAX_REDIRECTS + 1 - n
\* redirects), whatever the servers answer; the step on which a hop fails
\* issues no request, and a probe that failed takes no further step.
C19_NoRetry ==
  [][/\ getCount' \in {getCount, getCount + 1}
     /\ getCount' <= MAX_REDIRECTS + 1
     /\ getCount' = getCount + 1 =>
           /\ pc' = "connecting"
           /\ redirectsLeft' = MAX_REDIRECTS + 1 - getCount'
     /\ pc' = "failed" => getCount' = getCount
     /\ pc \notin {"done", "failed"}]_vars

\* the sixth request of a redirect chain failed and ended the probe
C19_Witness ==
  /\ pc = "failed"
  /\ getCount = MAX_REDIRECTS + 1
  /\ err \in {"FetchError", "AbortError"}

\* request i was answered with a probe result, fresh or cached
ResultReply(req) ==
  req.pc = "done" /\ req.code = 200 /\ req.body \in {"result", "cached"}

\* the key of req is charged for its calls
Billed(req) == server = "credits" \/ req.valid

\* C14: one unit is charged per served call, cache hit or miss.  A request
\* is charged at most once, on the step that answers it with a probe
\* result; that step lowers credits_remaining of its key by exactly one
\* (credits server) or raises calls_total of its key by exactly one
\* (JSON-store server); and every request of a key answered with a fresh or
\* cached result has been charged once.
C14_OneChargePerServedCall ==
  [][\A i \in 1..MaxReqs :
       LET before == reqs[i]
           after == reqs'[i]
           k == after.key
       IN /\ after.charged \in {before.charged, before.charged + 1}
          /\ after.charged <= 1
          /\ after.charged = before.charged + 1 =>
                /\ before.pc # "done" /\ ResultReply(after) /\ k \in Keys
                /\ server = "credits" =>
                      api_keys'[k].credits_remaining
                        = api_keys[k].credits_remaining - 1
                /\ server = "json" =>
                      usage'[k].calls_total = usage[k].calls_total + 1
          /\ ResultReply(after) /\ Billed(after) => after.charged = 1
          /\ ResultReply(after) /\ ~Billed(after) => after.charged = 0]_vars

\* in the credits server one request was served from the cache and one by a
\* probe, and each was charged one credit
C14_Witness ==
  /\ server = "credits"
  /\ \E i, j \in 1..MaxReqs :
       /\ ResultReply(reqs[i]) /\ reqs[i].body = "cached" /\ reqs[i].charged = 1
       /\ ResultReply(reqs[j]) /\ reqs[j].body = "result" /\ reqs[j].charged = 1
  /\ api_keys["k1"].credits_remaining = granted["k1"] - 2

\* C15: in the JSON-store server calls_today of a key never exceeds
\* API_KEY_DAILY_LIMIT, whatever the interleaving of its requests.
C15_DailyLimitHolds ==
  server = "json" =>
    \A k \in Keys : usage[k].calls_today <= API_KEY_DAILY_LIMIT

\* C16: per key and one-minute bucket the requests that pass the rate limit
\* are the first API_KEY_RPM counted in that bucket and no more, each
\* bucket counted on its own; a request answered 429 RATE_LIMITED was not
\* charged and did not invoke the probe.
C16_RateLimitHolds ==
  /\ \A k \in Keys, b \in Buckets :
       ratePassed[k][b] = Min(apiKeyRate[k][b], API_KEY_RPM)
  /\ \A i \in 1..MaxReqs :
       reqs[i].code = 429 =>
         /\ reqs[i].body = "RATE_LIMITED"
         /\ reqs[i].charged = 0
         /\ reqs[i].probed = 0
         /\ apiKeyRate[reqs[i].key][0] > API_KEY_RPM

\* the 121st request of a bucket was answered 429
C16_Witness ==
  /\ ratePassed["k1"][0] = API_KEY_RPM
  /\ apiKeyRate["k1"][0] = API_KEY_RPM + 1
  /\ \E i \in 1..MaxReqs : reqs[i].code = 429 /\ reqs[i].key = "k1"

\* C17: of the requests without a valid key from one IP, any two that pass
\* the free-quota gate are at least FREE_TTL_MS apart, and the quota the
\* store holds for the IP is that of the last such request: a request with
\* a valid key leaves it alone, and is never answered PAYMENT_REQUIRED.
C17_FreeTierHolds ==
  server = "json" =>
    /\ \A ip \in Ips :
         LET p == freePasses[ip] IN
           /\ \A a, b \in 1..Len(p) : a < b => p[b] - p[a] >= FREE_TTL_MS
           /\ freeByIp[ip] = IF p = <<>> THEN 0 ELSE p[Len(p)] + FREE_TTL_MS
    /\ \A i \in 1..MaxReqs :
         /\ reqs[i].body = "PAYMENT_REQUIRED" =>
               /\ ~reqs[i].valid /\ reqs[i].code = 402 /\ reqs[i].probed = 0
               /\ freePasses["ip1"] # <<>>
         /\ reqs[i].pc # "idle" /\ ~reqs[i].valid
               /\ reqs[i].body # "PAYMENT_REQUIRED" => freePasses["ip1"] # <<>>

\* the second request of an IP without a key was refused while the first
\* went on to the probe
C17_Witness ==
  /\ Len(freePasses["ip1"]) = 1
  /\ \E i, j \in 1..MaxReqs :
       /\ reqs[i].probed = 1 /\ ~reqs[i].valid
       /\ reqs[j].body = "PAYMENT_REQUIRED"

\* the requests of key k that were charged, and those answered with a result
ChargedTo(k) ==
  Cardinality({i \in 1..MaxReqs : reqs[i].key = k /\ reqs[i].charged = 1})

ServedTo(k) ==
  Cardinality({i \in 1..MaxReqs : reqs[i].key = k /\ ResultReply(reqs[i])})

\* C20: in the credits store credits_remaining of a key is never negative;
\* every successful decrementCredit lowered it by exactly one and nothing
\* else lowers it, so it equals the credits granted (initial plus added)
\* less the requests charged; and the requests of a key answered with a
\* probe result never outnumber the credits granted.
C20_CreditsNeverNegative ==
  server = "credits" =>
    \A k \in Keys :
      /\ api_keys[k].credits_remaining >= 0
      /\ api_keys[k].credits_remaining = granted[k] - ChargedTo(k)
      /\ ServedTo(k) = ChargedTo(k)
      /\ ServedTo(k) <= granted[k]
      /\ \A i \in 1..MaxReqs : reqs[i].charged <= 1

\* a key created with one credit: of two requests that both passed the
\* credit check one was served and took the balance to 0, the other's
\* decrement was refused
C20_Witness ==
  /\ server = "credits"
  /\ granted["k1"] = 1
  /\ api_keys["k1"].credits_remaining = 0
  /\ \E i, j \in 1..MaxReqs :
       /\ ResultReply(reqs[i])
       /\ reqs[j].body = "OUT_OF_CREDITS" /\ reqs[j].probed = 1

\* the probe of request req was executed and returned a result (it is cached)
ProbeSucceeded(req) ==
  /\ req.probed = 1
  /\ \/ req.pc = "decrementCredit" /\ req.body = "result"
     \/ req.pc = "done" /\ req.code # 400

\* C21: in the credits server a request that passed the credit check and
\* whose probe returned a result is charged one credit and answered 200 with
\* that result, never 402 OUT_OF_CREDITS, and the probes that returned a
\* result for a key never outnumber the credits the key was granted.
C21_ProbedRequestIsCharged ==
  server = "credits" =>
    /\ \A i \in 1..MaxReqs :
         (reqs[i].pc = "done" /\ ProbeSucceeded(reqs[i]))
           => /\ reqs[i].code = 200
              /\ reqs[i].body = "result"
              /\ reqs[i].charged = 1
    /\ \A k \in Keys :
         Cardinality({i \in 1..MaxReqs :
                        reqs[i].key = k /\ ProbeSucceeded(reqs[i])})
           <= granted[k]

\* the entry of url x is one a probe that returned wrote less than
\* CACHE_TTL_MS before time t
Fresh(x, t) ==
  /\ cache[x].present
  /\ cache[x].expiresAt > t
  /\ cache[x].setAt <= t
  /\ t - cache[x].setAt < CACHE_TTL_MS

\* the handler of request i, which is for url x, decides in this step to
\* answer from the cache
ServesCached(i, x) ==
  /\ reqs'[i].body = "cached"
  /\ \/ \E headerKey \in HeaderKeys, ip \in Ips : JsonRequest(i, headerKey, ip, x)
     \/ GetApiKeyReturns(i) /\ reqs[i].url = x

\* C22: a handler answers from the cache (cached: true) only when, at its
\* lookup, the entry of its own url is present with expiresAt > now, that is,
\* written less than CACHE_TTL_MS earlier; an entry is written only by a
\* handler whose probe of that very url returned a result, with expiresAt =
\* now + CACHE_TTL_MS; a request answered from the cache never called the
\* probe; and a probe that throws leaves the cache as it was.
C22_CacheServesFresh ==
  [][/\ \A i \in 1..MaxReqs, x \in Urls :
          ServesCached(i, x)
            => /\ Fresh(x, now)
               /\ reqs[i].probed = 0 /\ reqs'[i].probed = 0
               /\ cache' = cache
     /\ \A i \in 1..MaxReqs :
          /\ (reqs[i].body = "cached" /\ reqs[i].pc # "idle")
               => /\ reqs[i].probed = 0
                  /\ reqs'[i].probed = 0
                  /\ reqs'[i].pc \in {"decrementCredit", "done"}
          /\ (reqs[i].pc = "probing" /\ reqs'[i].code = 400) => cache' = cache
     /\ \A x \in Urls :
          cache'[x] # cache[x]
            => /\ \E i \in 1..MaxReqs :
                    /\ reqs[i].pc = "probing" /\ reqs[i].url = x
                    /\ reqs[i].probed = 1
                    /\ reqs'[i].body = "result"
               /\ cache'[x] = [present |-> TRUE,
                               expiresAt |-> now + CACHE_TTL_MS,
                               setAt |-> now]
     /\ \A x \in Urls :
          cache[x].present => cache[x].expiresAt = cache[x].setAt + CACHE_TTL_MS
    ]_vars

\* JSON-store server: a result cached at 60000 was served from the cache to
\* a request that arrived at CACHE_TTL_MS, 60000 ms before its expiry
C22_Witness ==
  /\ server = "json"
  /\ \E x \in Urls : cache[x].present /\ cache[x].setAt = 60000
  /\ apiKeyRate["k1"][Bucket(CACHE_TTL_MS)] = 1
  /\ \E i, j \in 1..MaxReqs :
       /\ reqs[i].pc = "done" /\ reqs[i].body = "result"
       /\ reqs[j].pc = "done" /\ reqs[j].body = "cached" /\ reqs[j].code = 200
       /\ reqs[j].key = "k1" /\ reqs[j].probed = 0

\* the calls counted and the credits held, per key
Accounting ==
  [k \in Keys |->
     [calls_total |-> usage[k].calls_total,
      calls_today |-> usage[k].calls_today,
      credits_remaining |-> api_keys[k].credits_remaining]]

\* C23: a request is answered 400 only from the await of the probe, with
\* BAD_REQUEST and without having been charged; that step changes neither
\* calls_total or calls_today nor credits_remaining nor the cache, and gives
\* back neither the rate count nor the free quota; a request that waits for
\* its probe has consumed one count of its key's rate bucket or, without a
\* valid key, the free quota of its IP; and calls_total rises or
\* credits_remaining falls only on a step that answers a request 200.
C23_ErrorLeavesAccounting ==
  [][/\ \A i \in 1..MaxReqs :
          /\ (reqs'[i].code = 400 /\ reqs[i].code # 400)
               => /\ reqs[i].pc = "probing"
                  /\ reqs'[i].pc = "done"
                  /\ reqs'[i].body = "BAD_REQUEST"
                  /\ reqs'[i].charged = 0
                  /\ reqs'[i].probed = 1
                  /\ Accounting' = Accounting
                  /\ usage' = usage
                  /\ api_keys' = api_keys
                  /\ cache' = cache
                  /\ apiKeyRate' = apiKeyRate
                  /\ freeByIp' = freeByIp
          /\ reqs[i].code = 400 => reqs'[i] = reqs[i]
          /\ reqs[i].pc = "probing"
               => /\ reqs[i].charged = 0
                  /\ reqs[i].valid =>
                       \E b \in Buckets : ratePassed[reqs[i].key][b] >= 1
                  /\ ~reqs[i].valid =>
                       /\ server = "json"
                       /\ freeByIp[reqs[i].ip] > 0
                       /\ Len(freePasses[reqs[i].ip]) >= 1
     /\ \A k \in Keys :
          (\/ usage'[k].calls_total > usage[k].calls_total
           \/ api_keys'[k].credits_remaining < api_keys[k].credits_remaining)
            => \E i \in 1..MaxReqs :
                 /\ reqs[i].pc # "done" /\ reqs'[i].pc = "done"
                 /\ reqs'[i].key = k /\ reqs'[i].code = 200
    ]_vars

\* JSON-store server: the probe of a request with the valid key k1 threw;
\* the request is answered 400, its rate count stays and no call of k1 has
\* been recorded
C23_Witness ==
  /\ server = "json"
  /\ \E i \in 1..MaxReqs :
       /\ reqs[i].pc = "done" /\ reqs[i].code = 400
       /\ reqs[i].key = "k1" /\ reqs[i].valid
       /\ reqs[i].charged = 0
  /\ usage["k1"].calls_total = 0
  /\ ratePassed["k1"][0] = 1
  /\ \A x \in Urls : ~cache[x].present

=============================================================================
